---------------------------- MODULE Spec2Model ----------------------------
(***************************************************************************)
(* Model of the Tetto Python SDK: TettoClient.call_agent (platform-built    *)
(* payment flow, src/tetto/client.py) and build_and_send_payment            *)
(* (client-built payment flow, src/tetto/transactions.py).                  *)
(*                                                                          *)
(* Python integers are unbounded and Python floats are IEEE-754 doubles;    *)
(* both exceed the integers of the model checker, so integers are kept as   *)
(* little-endian sequences of 15-bit limbs and doubles as (mantissa,        *)
(* exponent) pairs rounded to 53 bits, round-half-to-even, as the           *)
(* interpreter does.                                                        *)
(***************************************************************************)
EXTENDS Integers, Sequences, FiniteSets, TLC

----------------------------------------------------------------------------
(* Unbounded non-negative integers: <<l0, l1, ...>> is l0 + Base*l1 + ...,  *)
(* without high zero limbs; <<>> is 0.                                      *)

LimbBits == 15
Base == 2 ^ LimbBits

RECURSIVE Norm(_)
Norm(b) ==
    IF b = <<>> THEN <<>>
    ELSE IF b[Len(b)] = 0 THEN Norm(SubSeq(b, 1, Len(b) - 1))
    ELSE b

RECURSIVE FromNat(_)
FromNat(n) == IF n = 0 THEN <<>> ELSE <<n % Base>> \o FromNat(n \div Base)

RECURSIVE MulCarry(_, _, _)
MulCarry(b, m, carry) ==
    IF b = <<>> THEN FromNat(carry)
    ELSE LET t == b[1] * m + carry
         IN  <<t % Base>> \o MulCarry(Tail(b), m, t \div Base)

\* b * m for 0 <= m < Base
MulSmall(b, m) == Norm(MulCarry(b, m, 0))

RECURSIVE DivMod(_, _)
\* quotient and remainder of b by d, 0 < d < Base
DivMod(b, d) ==
    IF b = <<>> THEN [q |-> <<>>, r |-> 0]
    ELSE LET hi == DivMod(Tail(b), d)
             t  == Base * hi.r + b[1]
         IN  [q |-> <<t \div d>> \o hi.q, r |-> t % d]

FloorDiv(b, d) == Norm(DivMod(b, d).q)

RECURSIVE AddCarry(_, _, _)
AddCarry(a, b, c) ==
    IF a = <<>> /\ b = <<>> THEN FromNat(c)
    ELSE LET x == IF a = <<>> THEN 0 ELSE a[1]
             y == IF b = <<>> THEN 0 ELSE b[1]
             t == x + y + c
         IN  <<t % Base>> \o AddCarry(IF a = <<>> THEN <<>> ELSE Tail(a),
                                      IF b = <<>> THEN <<>> ELSE Tail(b),
                                      t \div Base)

Add(a, b) == Norm(AddCarry(a, b, 0))

RECURSIVE Less(_, _)
\* a < b
Less(a, b) ==
    IF Len(a) # Len(b) THEN Len(a) < Len(b)
    ELSE IF a = <<>> THEN FALSE
    ELSE IF a[Len(a)] # b[Len(b)] THEN a[Len(a)] < b[Len(b)]
    ELSE Less(Norm(SubSeq(a, 1, Len(a) - 1)), Norm(SubSeq(b, 1, Len(b) - 1)))

RECURSIVE SubBorrow(_, _, _)
SubBorrow(a, b, c) ==
    IF a = <<>> THEN <<>>
    ELSE LET y == IF b = <<>> THEN 0 ELSE b[1]
             t == a[1] - y - c
         IN  <<t % Base>> \o SubBorrow(Tail(a),
                                       IF b = <<>> THEN <<>> ELSE Tail(b),
                                       IF t < 0 THEN 1 ELSE 0)

\* a - b for a >= b
Minus(a, b) == Norm(SubBorrow(a, b, 0))

\* a - b as a signed integer
SignedSub(a, b) ==
    IF Less(a, b) THEN [neg |-> TRUE, mag |-> Minus(b, a)]
    ELSE [neg |-> FALSE, mag |-> Minus(a, b)]

RECURSIVE SmallBitLen(_)
SmallBitLen(n) == IF n = 0 THEN 0 ELSE 1 + SmallBitLen(n \div 2)

\* number of significant bits
BitLen(b) == IF b = <<>> THEN 0 ELSE LimbBits * (Len(b) - 1) + SmallBitLen(b[Len(b)])

\* b * 2^k
ShiftLeft(b, k) ==
    IF b = <<>> THEN <<>>
    ELSE [i \in 1..(k \div LimbBits) |-> 0] \o MulSmall(b, 2 ^ (k % LimbBits))

\* floor(b / 2^k), and whether a non-zero part was cut off
ShiftRight(b, k) ==
    LET limbs == k \div LimbBits
        low   == SubSeq(b, 1, IF limbs < Len(b) THEN limbs ELSE Len(b))
        high  == IF limbs >= Len(b) THEN <<>> ELSE SubSeq(b, limbs + 1, Len(b))
        qr    == DivMod(high, 2 ^ (k % LimbBits))
    IN  [q |-> Norm(qr.q),
         sticky |-> qr.r # 0 \/ \E i \in 1..Len(low) : low[i] # 0]

\* b * n for 0 <= n < Base * Base
MulInt(b, n) ==
    Add(MulSmall(b, n % Base),
        IF b = <<>> \/ n < Base THEN <<>> ELSE <<0>> \o MulSmall(b, n \div Base))

\* whole * 10^6 + micros, for machine-sized parts
Decimal6(whole, micros) == Add(MulInt(FromNat(whole), 1000000), FromNat(micros))

----------------------------------------------------------------------------
(* IEEE-754 doubles of the magnitudes that occur (no subnormals, no         *)
(* infinities): [m |-> mantissa, e |-> exponent] is m * 2^e with m of at    *)
(* most MantBits bits (or exactly 2^MantBits after a carry).                *)

MantBits == 53

\* n * 2^e rounded to MantBits significant bits, ties to even; sticky tells
\* that a non-zero part below n was already dropped
RoundBits(n, e, sticky) ==
    IF BitLen(n) <= MantBits THEN [m |-> n, e |-> IF n = <<>> THEN 0 ELSE e]
    ELSE LET drop == BitLen(n) - MantBits
             t    == ShiftRight(n, drop - 1)
             half == t.q[1] % 2 = 1
             kept == FloorDiv(t.q, 2)
             rest == sticky \/ t.sticky
             up   == half /\ (rest \/ kept[1] % 2 = 1)
         IN  [m |-> IF up THEN Add(kept, <<1>>) ELSE kept, e |-> e + drop]

\* the double nearest to (n / d) * 2^e, for 0 < d < Base
RoundDiv(n, d, e) ==
    IF n = <<>> THEN [m |-> <<>>, e |-> 0]
    ELSE LET k  == IF BitLen(n) >= MantBits + LimbBits + 2 THEN 0
                   ELSE MantBits + LimbBits + 2 - BitLen(n)
             qr == DivMod(ShiftLeft(n, k), d)
         IN  RoundBits(Norm(qr.q), e - k, qr.r # 0)

\* float("<whole>.<micros>"): the double a decimal literal with six
\* fractional digits parses to
ParseDecimal6(whole, micros) ==
    LET n  == Decimal6(whole, micros)
        k  == IF BitLen(n) >= MantBits + 2 * LimbBits + 2 THEN 0
              ELSE MantBits + 2 * LimbBits + 2 - BitLen(n)
        q1 == DivMod(ShiftLeft(n, k), 1000)
        q2 == DivMod(Norm(q1.q), 1000)
    IN  IF n = <<>> THEN [m |-> <<>>, e |-> 0]
        ELSE RoundBits(Norm(q2.q), 0 - k, q1.r # 0 \/ q2.r # 0)

\* x * c for a double x and an integer-valued double 0 <= c < Base * Base
FloatMul(x, c) == RoundBits(MulInt(x.m, c), x.e, FALSE)

\* x / c for a double x and an integer-valued double 0 < c < Base
FloatDiv(x, c) == RoundDiv(x.m, c, x.e)

\* int / int (true division), 0 < d < Base
TrueDiv(n, d) == RoundDiv(n, d, 0)

\* int(x) for x >= 0
Trunc(x) == IF x.e >= 0 THEN ShiftLeft(x.m, x.e) ELSE ShiftRight(x.m, 0 - x.e).q

----------------------------------------------------------------------------
(* Values shared by both payment flows                                      *)

None == [none |-> TRUE]

\* dict.get(key, default)
Get(d, key, default) == IF key \in DOMAIN d THEN d[key] ELSE default

\* Keypair: the secret signing material and the public address derived from it
Keypair1 == [secret |-> "sk1", pubkey |-> "pk1"]

\* keypair.sign_message(message): ed25519 is deterministic in key and message
SignMessage(keypair, message) == [signer |-> keypair.pubkey, message |-> message]

\* b64encode / b64decode of a byte string
B64Encode(bytes) == [b64 |-> bytes]
B64Decode(text) == text.b64

\* bytes(transaction) / VersionedTransaction.from_bytes
TxBytes(tx) == [kind |-> "tx", message |-> tx.message, signatures |-> tx.signatures]
IsTxBytes(bytes) == bytes.kind = "tx"
TxFromBytes(bytes) == [message |-> bytes.message, signatures |-> bytes.signatures]

\* what an exception raised to the caller carries
Exception(msg) == [type |-> "Exception", msg |-> msg]
\* httpx.RequestError: it holds the request that failed
TransportError(request) == [type |-> "httpx.RequestError", request |-> request.path]
DecodeError == [type |-> "ValueError", msg |-> "deserialize"]

----------------------------------------------------------------------------
(* Bounds and input sets                                                    *)

NumCalls == 2
Calls == 1..NumCalls

AgentIds == {"agent-1"}
InputData == {"text"}
Tokens == {"USDC", "SOL", "BTC"}
\* call_agent forwards preferred_token as it is: one supported, one not
PreferredTokens == {"USDC", "BTC"}
Networks == {"mainnet", "devnet"}
ApiUrls == {[origin |-> "https://tetto.io", trailing_slashes |-> 1]}
KeypairArgs == {Keypair1, None}

\* what a session does: "A" build_and_send_payment, "B" call_agent,
\* "C" list_agents and get_agent, "K" constructs a client from any arguments,
\* "W" loads and generates keys, "T" derives token account addresses
Variants == {"A", "B", "C", "K", "W", "T"}

\* constructor arguments beyond the defaults
NetworkArgs == Networks \cup {"testnet"}
RpcUrlArgs ==
    {None, [origin |-> "https://api.devnet.solana.com", trailing_slashes |-> 0],
     [origin |-> "https://rpc.example.com", trailing_slashes |-> 0]}
ProtocolWalletArgs ==
    {None, [addr |-> "BubFsAG8cSEH7NkLpZijctRpsZkCiaWqCdRfh8kUpXEt"],
     [addr |-> "custom-wallet"]}

NumPays == 1
Pays == 1..NumPays

\* price literals as <<whole dollars, millionths>>
Prices == {<<1, 0>>, <<2, 500000>>, <<2000000, 1>>}
FeeBps == {500, 1000, 9999, 20000, -500}
Blockhashes == {"bh1", "bh2"}

\* error strings a platform response may carry
ServerErrors == {"Insufficient balance"}

VARIABLES
    variant,            \* what this session does, one of Variants
    client,             \* the TettoClient instance (None in a session that never constructs one)
    intents_issued,     \* platform: number of payment intents created so far
    pc,                 \* call_agent: where each invocation is suspended
    args,               \* call_agent: (agent_id, input_data, preferred_token)
    agent,              \* call_agent: local `agent`
    build_result,       \* call_agent: local `build_result`
    signed_transaction, \* call_agent: local `signed_transaction`
    data,               \* call_agent: local `data`, the relay's answer
    result,             \* call_agent: the returned dict
    error,              \* call_agent: the exception raised to the caller
    sent,               \* call_agent: HTTP requests issued, in order
    block               \* the `async with TettoClient(...)` block: "inside" or "exited"

VARIABLES
    ppc,                \* build_and_send_payment: where each invocation is suspended
    pargs,              \* build_and_send_payment: its arguments
    amounts,            \* build_and_send_payment: amount, protocol_fee, agent_amount
    tx,                 \* build_and_send_payment: local `tx`
    recent_blockhash,   \* build_and_send_payment: local `recent_blockhash`
    rpc_client,         \* build_and_send_payment: the AsyncClient of the `async with`
    rpc_sent,           \* build_and_send_payment: RPC requests issued, in order
    rpc_recv,           \* build_and_send_payment: what the RPC node answered, in order
    signature,          \* build_and_send_payment: the returned signature
    perror              \* build_and_send_payment: the exception raised to the caller

VARIABLES
    lpc,                \* list_agents / get_agent: where each invocation is suspended
    largs,              \* list_agents / get_agent: the method called and its argument
    ldata,              \* list_agents / get_agent: local `data`
    lresult,            \* list_agents / get_agent: the returned value
    lerror,             \* list_agents / get_agent: the exception raised to the caller
    lsent               \* list_agents / get_agent: HTTP requests issued, in order

VARIABLES
    loaded              \* wallet: the key-loading calls made so far and how each ended

VARIABLES
    derived             \* get_associated_token_address: the calls made so far and what each returned

callVars == <<client, intents_issued, pc, args, agent, build_result,
              signed_transaction, data, result, error, sent>>

payVars == <<ppc, pargs, amounts, tx, recent_blockhash, rpc_client, rpc_sent,
             rpc_recv, signature, perror>>

lookVars == <<lpc, largs, ldata, lresult, lerror, lsent>>

vars == <<variant, callVars, block, payVars, lookVars, loaded, derived, derived>>

----------------------------------------------------------------------------
(* TettoClient.__init__                                                     *)

\* a URL string: its text without trailing slashes, and how many follow
Url(origin) == [origin |-> origin, trailing_slashes |-> 0]

\* str.rstrip("/")
RStripSlash(url) == [url EXCEPT !.trailing_slashes = 0]

TettoClientInit(api_url, network, keypair, rpc_url, protocol_wallet) ==
    IF network = "mainnet"
    THEN [api_url |-> RStripSlash(api_url), network |-> network, keypair |-> keypair,
          rpc_url |-> IF rpc_url # None THEN rpc_url
                      ELSE Url("https://api.mainnet-beta.solana.com"),
          protocol_wallet |-> IF protocol_wallet # None THEN protocol_wallet
                              ELSE [addr |-> "CYSnefexbvrRU6VxzGfvZqKYM4UixupvDeZg3sUSWm84"],
          usdc_mint |-> [addr |-> "EPjFWdd5AufqSSqeM2qN1xzybapC8G4wEGGkZwyTDt1v"],
          http_client |-> "open"]
    ELSE [api_url |-> RStripSlash(api_url), network |-> network, keypair |-> keypair,
          rpc_url |-> IF rpc_url # None THEN rpc_url
                      ELSE Url("https://api.devnet.solana.com"),
          protocol_wallet |-> IF protocol_wallet # None THEN protocol_wallet
                              ELSE [addr |-> "BubFsAG8cSEH7NkLpZijctRpsZkCiaWqCdRfh8kUpXEt"],
          usdc_mint |-> [addr |-> "4zMMC9srt5Ri5X14GAgXhaHii3GnPAEERYPJgZJDncDU"],
          http_client |-> "open"]

----------------------------------------------------------------------------
(* TettoClient.call_agent: requests                                         *)

HttpRequest(method, host, path, json) ==
    [method |-> method, host |-> host, path |-> path, json |-> json]

\* get_agent: GET {api_url}/api/agents/{agent_id}
DescribeRequest(c, a) ==
    HttpRequest("GET", c.api_url, <<"api", "agents", a.agent_id>>, None)

\* BuildRequest that identifies the payer by the secret key
BuildRequestLeaky(c, a) ==
    HttpRequest("POST", c.api_url,
                <<"api", "agents", a.agent_id, "build-transaction">>,
                [payer_wallet |-> c.keypair.secret,
                 selected_token |-> a.preferred_token,
                 input |-> a.input_data])

\* POST {api_url}/api/agents/{agent_id}/build-transaction
BuildRequest(c, a) ==
    HttpRequest("POST", c.api_url,
                <<"api", "agents", a.agent_id, "build-transaction">>,
                [payer_wallet |-> c.keypair.pubkey,
                 selected_token |-> a.preferred_token,
                 input |-> a.input_data])

\* SubmitRequest that keeps sending the first payment intent it ever saw
SubmitRequestStaleIntent(c, br, signed) ==
    HttpRequest("POST", c.api_url, <<"api", "agents", "call">>,
                [payment_intent_id |-> 1,
                 signed_transaction |-> B64Encode(TxBytes(signed))])

\* SubmitRequest that sends the signed transaction to the RPC endpoint
SubmitRequestDirect(c, br, signed) ==
    HttpRequest("POST", c.rpc_url, <<"api", "agents", "call">>,
                [payment_intent_id |-> br.payment_intent_id,
                 signed_transaction |-> B64Encode(TxBytes(signed))])

\* POST {api_url}/api/agents/call
SubmitRequest(c, br, signed) ==
    HttpRequest("POST", c.api_url, <<"api", "agents", "call">>,
                [payment_intent_id |-> br.payment_intent_id,
                 signed_transaction |-> B64Encode(TxBytes(signed))])

\* SignTransaction that signs the transaction's bytes, not its message
SignTransactionOverBytes(keypair, transaction) ==
    [message |-> transaction.message,
     signatures |-> <<SignMessage(keypair, TxBytes(transaction))>>]

\* transaction = from_bytes(b64decode(...)); populate(message, [signature])
SignTransaction(keypair, transaction) ==
    [message |-> transaction.message,
     signatures |-> <<SignMessage(keypair, transaction.message)>>]

\* the dict call_agent returns
CallResult(body) ==
    [ok |-> Get(body, "ok", None),
     message |-> Get(body, "message", ""),
     output |-> Get(body, "output", [empty |-> TRUE]),
     tx_signature |-> Get(body, "tx_signature", ""),
     receipt_id |-> Get(body, "receipt_id", ""),
     explorer_url |-> Get(body, "explorer_url", ""),
     agent_received |-> Get(body, "agent_received", 0),
     protocol_fee |-> Get(body, "protocol_fee", 0)]

IsDescribe(r) == r.method = "GET" /\ Len(r.path) = 3
IsBuild(r) == r.method = "POST" /\ Len(r.path) = 4 /\ r.path[4] = "build-transaction"
IsSubmit(r) == r.method = "POST" /\ r.path = <<"api", "agents", "call">>

----------------------------------------------------------------------------
(* The platform API as call_agent sees it: the JSON bodies it may answer    *)
(* with.  TransportFailure stands for a request that raises instead of      *)
(* returning (timeout, connection error, body that is not JSON).            *)

TransportFailure == [transport_error |-> TRUE]

IsTransportFailure(resp) == "transport_error" \in DOMAIN resp

ErrorBodies == {[ok |-> FALSE]} \cup {[ok |-> FALSE, error |-> e] : e \in ServerErrors}

\* GET /api/agents/{id}
DescribeResponses(a) ==
    {[ok |-> TRUE,
      agent |-> [id |-> a.agent_id, name |-> "TitleGenerator",
                 price_usd |-> <<1, 0>>, fee_bps |-> 1000]]}
        \cup ErrorBodies \cup {TransportFailure}

\* the unsigned transaction the platform builds for a payment intent
UnsignedTransaction(intent, req) ==
    [message |-> [payer |-> req.json.payer_wallet, intent |-> intent,
                  token |-> req.json.selected_token],
     signatures |-> <<>>]

\* POST /api/agents/{id}/build-transaction, creating payment intent `intent`
BuildResponses(intent, req) ==
    {[ok |-> TRUE, payment_intent_id |-> intent,
      transaction |-> B64Encode(TxBytes(UnsignedTransaction(intent, req))),
      amount_base |-> 1000000, token |-> req.json.selected_token],
     [ok |-> TRUE, payment_intent_id |-> intent,
      transaction |-> B64Encode([kind |-> "junk"]),
      amount_base |-> 1000000, token |-> req.json.selected_token],
     [ok |-> FALSE, error |-> "Input validation failed", payment_intent_id |-> intent,
      transaction |-> B64Encode(TxBytes(UnsignedTransaction(intent, req)))]}
        \cup ErrorBodies \cup {TransportFailure}

\* POST /api/agents/call
SubmitResponses ==
    {[ok |-> TRUE, output |-> [title |-> "t"], tx_signature |-> "sig",
      receipt_id |-> "r", explorer_url |-> "u",
      agent_received |-> 900000, protocol_fee |-> 100000],
     [ok |-> TRUE, output |-> [title |-> "t"]]}
        \cup ErrorBodies \cup {TransportFailure}

----------------------------------------------------------------------------
(* TettoClient.call_agent: what each resumption computes.  An outcome is    *)
(* [raise |-> exception] or [raise |-> None, value |-> ...].                *)

Raise(exc) == [raise |-> exc]
Return(value) == [raise |-> None, value |-> value]

\* GetAgentOutcome that goes on with whatever the body holds
GetAgentOutcomeLenient(request, body) ==
    IF IsTransportFailure(body) THEN Raise(TransportError(request))
    ELSE Return(Get(body, "agent", None))

\* get_agent after its GET returned
GetAgentOutcome(request, body) ==
    IF IsTransportFailure(body) THEN Raise(TransportError(request))
    ELSE IF Get(body, "ok", FALSE) # TRUE
         THEN Raise(Exception(Get(body, "error", "Agent not found")))
    ELSE Return(body.agent)

\* SignOutcome without the test of the ok flag
SignOutcomeUnchecked(keypair, request, body) ==
    IF IsTransportFailure(body) THEN Raise(TransportError(request))
    ELSE IF "transaction" \notin DOMAIN body
         THEN Raise([type |-> "KeyError", msg |-> "transaction"])
    ELSE IF ~IsTxBytes(B64Decode(body.transaction)) THEN Raise(DecodeError)
    ELSE Return(SignTransaction(keypair, TxFromBytes(B64Decode(body.transaction))))

\* call_agent from the build response to the signed transaction
SignOutcome(keypair, request, body) ==
    IF IsTransportFailure(body) THEN Raise(TransportError(request))
    ELSE IF Get(body, "ok", FALSE) # TRUE
         THEN Raise(Exception(Get(body, "error", "Transaction building failed")))
    ELSE IF ~IsTxBytes(B64Decode(body.transaction)) THEN Raise(DecodeError)
    ELSE Return(SignTransaction(keypair, TxFromBytes(B64Decode(body.transaction))))

\* call_agent after the relay answered
SubmitOutcome(request, body) ==
    IF IsTransportFailure(body) THEN Raise(TransportError(request))
    ELSE IF Get(body, "ok", FALSE) # TRUE
         THEN Raise(Exception(Get(body, "error", "Agent call failed")))
    ELSE Return(CallResult(body))

----------------------------------------------------------------------------
(* TettoClient.call_agent: one action per run between suspension points     *)

\* CallAgent that asks for the descriptor before looking at the keypair
CallAgentUnchecked(i, agent_id, input_data, preferred_token) ==
    /\ variant = "B"
    /\ block = "inside"
    /\ pc[i] = "idle"
    /\ LET a == [agent_id |-> agent_id, input_data |-> input_data,
                 preferred_token |-> preferred_token]
       IN  /\ args' = [args EXCEPT ![i] = a]
           /\ pc' = [pc EXCEPT ![i] = "describing"]
           /\ sent' = [sent EXCEPT ![i] = Append(@, DescribeRequest(client, a))]
           /\ error' = error
    /\ UNCHANGED <<variant, client, intents_issued, agent, build_result,
                   signed_transaction, data, result, payVars, block, lookVars, loaded, derived>>

\* CallAgent that reuses the descriptor another invocation has fetched
CallAgentCached(i, agent_id, input_data, preferred_token) ==
    /\ variant = "B"
    /\ block = "inside"
    /\ pc[i] = "idle"
    /\ LET a == [agent_id |-> agent_id, input_data |-> input_data,
                 preferred_token |-> preferred_token]
           cached == {j \in Calls : agent[j] # None}
       IN  /\ args' = [args EXCEPT ![i] = a]
           /\ IF client.keypair = None
              THEN /\ pc' = [pc EXCEPT ![i] = "failed"]
                   /\ error' = [error EXCEPT ![i] =
                          Exception("Keypair required for payments.")]
                   /\ UNCHANGED <<sent, agent>>
              ELSE IF cached # {}
              THEN /\ pc' = [pc EXCEPT ![i] = "building"]
                   /\ agent' = [agent EXCEPT ![i] = agent[CHOOSE j \in cached : TRUE]]
                   /\ sent' = [sent EXCEPT ![i] = Append(@, BuildRequest(client, a))]
                   /\ error' = error
              ELSE /\ pc' = [pc EXCEPT ![i] = "describing"]
                   /\ sent' = [sent EXCEPT ![i] = Append(@, DescribeRequest(client, a))]
                   /\ UNCHANGED <<error, agent>>
    /\ UNCHANGED <<variant, client, intents_issued, build_result,
                   signed_transaction, data, result, payVars, block, lookVars, loaded, derived>>

\* entry to the first await (get_agent's GET)
CallAgent(i, agent_id, input_data, preferred_token) ==
    /\ variant = "B"
    /\ block = "inside"
    /\ pc[i] = "idle"
    /\ LET a == [agent_id |-> agent_id, input_data |-> input_data,
                 preferred_token |-> preferred_token]
       IN  /\ args' = [args EXCEPT ![i] = a]
           /\ IF client.keypair = None
              THEN /\ pc' = [pc EXCEPT ![i] = "failed"]
                   /\ error' = [error EXCEPT ![i] =
                          Exception("Keypair required for payments.")]
                   /\ sent' = sent
              ELSE /\ pc' = [pc EXCEPT ![i] = "describing"]
                   /\ sent' = [sent EXCEPT ![i] = Append(@, DescribeRequest(client, a))]
                   /\ error' = error
    /\ UNCHANGED <<variant, client, intents_issued, agent, build_result,
                   signed_transaction, data, result, payVars, block, lookVars, loaded, derived>>

\* the describe response arrives; on success the build request goes out
DescribeResponse(i) ==
    /\ pc[i] = "describing"
    /\ \E body \in DescribeResponses(args[i]) :
         LET o == GetAgentOutcome(sent[i][Len(sent[i])], body)
         IN  IF o.raise # None
             THEN /\ pc' = [pc EXCEPT ![i] = "failed"]
                  /\ error' = [error EXCEPT ![i] = o.raise]
                  /\ UNCHANGED <<agent, sent>>
             ELSE /\ pc' = [pc EXCEPT ![i] = "building"]
                  /\ agent' = [agent EXCEPT ![i] = o.value]
                  /\ sent' = [sent EXCEPT ![i] = Append(@, BuildRequest(client, args[i]))]
                  /\ error' = error
    /\ UNCHANGED <<variant, client, intents_issued, args, build_result,
                   signed_transaction, data, result, payVars, block, lookVars, loaded, derived>>

\* the build response arrives; on success the transaction is signed and the
\* submit request goes out (no suspension point in between)
BuildResponse(i) ==
    /\ pc[i] = "building"
    /\ \E body \in BuildResponses(intents_issued + 1, sent[i][Len(sent[i])]) :
         LET o == SignOutcome(client.keypair, sent[i][Len(sent[i])], body)
         IN  /\ intents_issued' = IF "payment_intent_id" \in DOMAIN body
                                  THEN intents_issued + 1 ELSE intents_issued
             /\ build_result' = [build_result EXCEPT ![i] =
                    IF IsTransportFailure(body) THEN None ELSE body]
             /\ IF o.raise # None
                THEN /\ pc' = [pc EXCEPT ![i] = "failed"]
                     /\ error' = [error EXCEPT ![i] = o.raise]
                     /\ UNCHANGED <<signed_transaction, sent>>
                ELSE /\ pc' = [pc EXCEPT ![i] = "submitting"]
                     /\ signed_transaction' = [signed_transaction EXCEPT ![i] = o.value]
                     /\ sent' = [sent EXCEPT ![i] =
                            Append(@, SubmitRequest(client, body, o.value))]
                     /\ error' = error
    /\ UNCHANGED <<variant, client, args, agent, data, result, payVars, block, lookVars, loaded, derived>>

\* the relay's response arrives
CallResponse(i) ==
    /\ pc[i] = "submitting"
    /\ \E body \in SubmitResponses :
         LET o == SubmitOutcome(sent[i][Len(sent[i])], body)
         IN  /\ data' = [data EXCEPT ![i] =
                    IF IsTransportFailure(body) THEN None ELSE body]
             /\ IF o.raise # None
                THEN /\ pc' = [pc EXCEPT ![i] = "failed"]
                     /\ error' = [error EXCEPT ![i] = o.raise]
                     /\ result' = result
                ELSE /\ pc' = [pc EXCEPT ![i] = "done"]
                     /\ result' = [result EXCEPT ![i] = o.value]
                     /\ error' = error
    /\ UNCHANGED <<variant, client, intents_issued, args, agent, build_result,
                   signed_transaction, sent, payVars, block, lookVars, loaded, derived>>

----------------------------------------------------------------------------
(* build_and_send_payment: amounts                                          *)

SolPrice == 200
UsdcDecimals == 6
U64Bits == 64

\* int(price_usd * 1_000_000)
UsdcAmount(price_usd) == Trunc(FloatMul(price_usd, 1000000))

\* int((price_usd / sol_price) * 1e9)
LamportAmount(price_usd) == Trunc(FloatMul(FloatDiv(price_usd, SolPrice), 1000000000))

Abs(n) == IF n < 0 THEN 0 - n ELSE n

\* ProtocolFee dividing by 1000
ProtocolFeePerMille(amount, fee_bps) == Trunc(TrueDiv(MulInt(amount, Abs(fee_bps)), 1000))

\* int(amount * fee_bps / 10000), its magnitude: the product is exact, the
\* division rounds a quotient and its negation alike, int() drops the fraction
ProtocolFee(amount, fee_bps) == Trunc(TrueDiv(MulInt(amount, Abs(fee_bps)), 10000))

\* int(amount * fee_bps / 10000) < 0
ProtocolFeeNegative(amount, fee_bps) == fee_bps < 0 /\ ProtocolFee(amount, fee_bps) # <<>>

\* amount - protocol_fee
AgentAmount(amount, protocol_fee) == SignedSub(amount, protocol_fee)

\* the three locals of either branch
ComputeAmounts(price_usd, token, fee_bps) ==
    LET amount == IF token = "USDC" THEN UsdcAmount(price_usd)
                  ELSE LamportAmount(price_usd)
        fee    == ProtocolFee(amount, fee_bps)
        neg    == ProtocolFeeNegative(amount, fee_bps)
    IN  [amount |-> amount, protocol_fee |-> fee, protocol_fee_neg |-> neg,
         agent_amount |-> IF neg THEN [neg |-> FALSE, mag |-> Add(amount, fee)]
                          ELSE AgentAmount(amount, fee)]

\* FitsU64 that looks at the magnitude alone
FitsU64Magnitude(n) == BitLen(n.mag) <= U64Bits

\* struct.pack("<Q", n) and the u64 `lamports` field accept 0 <= n < 2^64
FitsU64(n) == ~n.neg /\ BitLen(n.mag) <= U64Bits

----------------------------------------------------------------------------
(* build_and_send_payment: transaction                                      *)

TOKEN_PROGRAM_ID == [addr |-> "TokenkegQfeZyiNwAJbNbGKPFXCWuBvf9Ss623VQ5DA"]
ASSOCIATED_TOKEN_PROGRAM_ID == [addr |-> "ATokenGPvbdGVxr1b2hvZbsiqW5xWH25efTNsLJA8knL"]

\* Pubkey.find_program_address(seeds, program_id): the address is a hash of
\* the seeds, each a 32-byte key, and of the program id; the hash is taken
\* as free of collisions, so the address stands for what was hashed
FindProgramAddress(seeds, program_id) == [pda |-> seeds, program_id |-> program_id]

\* GetAssociatedTokenAddress whose seeds leave out the mint
GetAssociatedTokenAddressOfWallet(wallet, mint) ==
    FindProgramAddress(<<wallet, TOKEN_PROGRAM_ID>>, ASSOCIATED_TOKEN_PROGRAM_ID)

\* get_associated_token_address: the PDA of [wallet, TOKEN_PROGRAM_ID, mint]
\* under the associated token program
GetAssociatedTokenAddress(wallet, mint) ==
    FindProgramAddress(<<wallet, TOKEN_PROGRAM_ID, mint>>, ASSOCIATED_TOKEN_PROGRAM_ID)

\* TokenTransfer that pays into the owner's wallet address
TokenTransferRaw(payer, mint, owner, amount) ==
    [program |-> "token", kind |-> "TransferChecked",
     source |-> GetAssociatedTokenAddress(payer, mint), mint |-> mint,
     dest |-> owner,
     authority |-> payer, amount |-> amount, decimals |-> UsdcDecimals]

\* SPL TransferChecked from the payer's token account
TokenTransfer(payer, mint, owner, amount) ==
    [program |-> "token", kind |-> "TransferChecked",
     source |-> GetAssociatedTokenAddress(payer, mint), mint |-> mint,
     dest |-> GetAssociatedTokenAddress(owner, mint),
     authority |-> payer, amount |-> amount, decimals |-> UsdcDecimals]

\* system program transfer of lamports
SystemTransfer(payer, to, lamports) ==
    [program |-> "system", kind |-> "Transfer",
     source |-> payer, dest |-> to, amount |-> lamports]

\* Instructions with the agent's transfer alone
InstructionsAgentOnly(a, am) ==
    IF a.token = "USDC"
    THEN <<TokenTransfer(a.payer_keypair.pubkey, a.usdc_mint, a.agent_wallet,
                         am.agent_amount.mag)>>
    ELSE <<SystemTransfer(a.payer_keypair.pubkey, a.agent_wallet, am.agent_amount.mag)>>

\* the two instructions, agent first
Instructions(a, am) ==
    IF a.token = "USDC"
    THEN <<TokenTransfer(a.payer_keypair.pubkey, a.usdc_mint, a.agent_wallet,
                         am.agent_amount.mag),
           TokenTransfer(a.payer_keypair.pubkey, a.usdc_mint, a.protocol_wallet,
                         am.protocol_fee)>>
    ELSE <<SystemTransfer(a.payer_keypair.pubkey, a.agent_wallet, am.agent_amount.mag),
           SystemTransfer(a.payer_keypair.pubkey, a.protocol_wallet, am.protocol_fee)>>

\* Message.new_with_blockhash + Transaction([payer_keypair], msg, blockhash)
BuildTransaction(a, am, blockhash) ==
    LET msg == [instructions |-> Instructions(a, am),
                payer |-> a.payer_keypair.pubkey,
                recent_blockhash |-> blockhash]
    IN  [message |-> msg, signatures |-> <<SignMessage(a.payer_keypair, msg)>>]

\* BuildOutcome that signs over a blockhash it kept
BuildOutcomeKeptBlockhash(a, am, resp) ==
    IF "rpc_error" \in DOMAIN resp THEN Raise([type |-> "RPCException", msg |-> "blockhash"])
    ELSE IF ~FitsU64(am.agent_amount) \/ ~FitsU64([neg |-> am.protocol_fee_neg, mag |-> am.protocol_fee])
         THEN Raise([type |-> IF a.token = "USDC" THEN "struct.error" ELSE "OverflowError",
                     msg |-> "u64"])
    ELSE Return(BuildTransaction(a, am, "bh1"))

\* from the blockhash response to the signed transaction
BuildOutcome(a, am, resp) ==
    IF "rpc_error" \in DOMAIN resp THEN Raise([type |-> "RPCException", msg |-> "blockhash"])
    ELSE IF ~FitsU64(am.agent_amount) \/ ~FitsU64([neg |-> am.protocol_fee_neg, mag |-> am.protocol_fee])
         THEN Raise([type |-> IF a.token = "USDC" THEN "struct.error" ELSE "OverflowError",
                     msg |-> "u64"])
    ELSE Return(BuildTransaction(a, am, resp.blockhash))

RpcRequest(url, method, params) == [host |-> url, method |-> method, params |-> params]

RpcFailure == [rpc_error |-> TRUE]

\* confirm_transaction gave up polling: the signature did not reach the
\* commitment within the time the RPC client allows
ConfirmTimeout == [timeout |-> TRUE]

\* what confirm_transaction raises then
UnconfirmedTxError == [type |-> "UnconfirmedTxError", msg |-> "confirm"]

----------------------------------------------------------------------------
(* build_and_send_payment: one action per run between suspension points     *)

\* entry: open the RPC client, compute the amounts, ask for a blockhash
BuildAndSendPayment(p, price_usd, token, fee_bps) ==
    /\ variant = "A"
    /\ ppc[p] = "idle"
    /\ LET a == [rpc_url |-> Url("https://api.mainnet-beta.solana.com"),
                 payer_keypair |-> Keypair1,
                 agent_wallet |-> [addr |-> "agent-wallet"],
                 protocol_wallet |-> [addr |-> "CYSnefexbvrRU6VxzGfvZqKYM4UixupvDeZg3sUSWm84"],
                 price_usd |-> price_usd, token |-> token,
                 usdc_mint |-> [addr |-> "EPjFWdd5AufqSSqeM2qN1xzybapC8G4wEGGkZwyTDt1v"],
                 fee_bps |-> fee_bps]
       IN  /\ pargs' = [pargs EXCEPT ![p] = a]
           /\ amounts' = [amounts EXCEPT ![p] = ComputeAmounts(price_usd, token, fee_bps)]
           /\ rpc_sent' = [rpc_sent EXCEPT ![p] =
                  Append(@, RpcRequest(a.rpc_url, "getLatestBlockhash", None))]
    /\ rpc_client' = [rpc_client EXCEPT ![p] = "open"]
    /\ ppc' = [ppc EXCEPT ![p] = "blockhash"]
    /\ UNCHANGED <<variant, callVars, block, lookVars, loaded, derived, tx, recent_blockhash,
                   rpc_recv, signature, perror>>

\* the blockhash arrives: build and sign the transaction, send it
BlockhashResponse(p) ==
    /\ ppc[p] = "blockhash"
    /\ \E resp \in {[blockhash |-> h] : h \in Blockhashes} \cup {RpcFailure} :
         LET o == BuildOutcome(pargs[p], amounts[p], resp)
         IN  /\ rpc_recv' = [rpc_recv EXCEPT ![p] = Append(@, resp)]
             /\ recent_blockhash' = [recent_blockhash EXCEPT ![p] =
                    IF "rpc_error" \in DOMAIN resp THEN None ELSE resp.blockhash]
             /\ IF o.raise # None
                THEN /\ ppc' = [ppc EXCEPT ![p] = "failed"]
                     /\ perror' = [perror EXCEPT ![p] = o.raise]
                     /\ rpc_client' = [rpc_client EXCEPT ![p] = "closed"]
                     /\ UNCHANGED <<tx, rpc_sent>>
                ELSE /\ ppc' = [ppc EXCEPT ![p] = "sending"]
                     /\ tx' = [tx EXCEPT ![p] = o.value]
                     /\ rpc_sent' = [rpc_sent EXCEPT ![p] =
                            Append(@, RpcRequest(pargs[p].rpc_url, "sendTransaction",
                                                 o.value))]
                     /\ UNCHANGED <<perror, rpc_client>>
    /\ UNCHANGED <<variant, callVars, block, lookVars, loaded, derived, pargs, amounts, signature>>

\* SendResponse that sends the transaction again when the RPC call failed
SendResponseRetrying(p) ==
    /\ ppc[p] = "sending"
    /\ \E resp \in {[value |-> tx[p].signatures[1]], RpcFailure} :
         /\ rpc_recv' = [rpc_recv EXCEPT ![p] = Append(@, resp)]
         /\ IF "rpc_error" \in DOMAIN resp
            THEN /\ Len(rpc_sent[p]) < 4
                 /\ rpc_sent' = [rpc_sent EXCEPT ![p] =
                        Append(@, RpcRequest(pargs[p].rpc_url, "sendTransaction", tx[p]))]
                 /\ UNCHANGED <<ppc, perror, rpc_client>>
            ELSE /\ ppc' = [ppc EXCEPT ![p] = "confirming"]
                 /\ rpc_sent' = [rpc_sent EXCEPT ![p] =
                        Append(@, RpcRequest(pargs[p].rpc_url, "confirmTransaction",
                                             resp.value))]
                 /\ UNCHANGED <<perror, rpc_client>>
    /\ UNCHANGED <<variant, callVars, block, lookVars, loaded, derived, pargs, amounts, tx,
                   recent_blockhash, signature>>

\* send_transaction returned: keep the signature, wait for confirmation
SendResponse(p) ==
    /\ ppc[p] = "sending"
    /\ \E resp \in {[value |-> tx[p].signatures[1]], RpcFailure} :
         /\ rpc_recv' = [rpc_recv EXCEPT ![p] = Append(@, resp)]
         /\ IF "rpc_error" \in DOMAIN resp
            THEN /\ ppc' = [ppc EXCEPT ![p] = "failed"]
                 /\ perror' = [perror EXCEPT ![p] =
                        [type |-> "RPCException", msg |-> "send"]]
                 /\ rpc_client' = [rpc_client EXCEPT ![p] = "closed"]
                 /\ UNCHANGED <<rpc_sent>>
            ELSE /\ ppc' = [ppc EXCEPT ![p] = "confirming"]
                 /\ rpc_sent' = [rpc_sent EXCEPT ![p] =
                        Append(@, RpcRequest(pargs[p].rpc_url, "confirmTransaction",
                                             resp.value))]
                 /\ UNCHANGED <<perror, rpc_client>>
    /\ UNCHANGED <<variant, callVars, block, lookVars, loaded, derived, pargs, amounts, tx,
                   recent_blockhash, signature>>

\* ConfirmResponse that returns the signature whatever the confirmation says
ConfirmResponseLenient(p) ==
    /\ ppc[p] = "confirming"
    /\ \E resp \in {[confirmed |-> TRUE], RpcFailure, ConfirmTimeout} :
         /\ rpc_recv' = [rpc_recv EXCEPT ![p] = Append(@, resp)]
         /\ ppc' = [ppc EXCEPT ![p] = "done"]
         /\ signature' = [signature EXCEPT ![p] = rpc_sent[p][3].params]
         /\ UNCHANGED <<perror>>
    /\ rpc_client' = [rpc_client EXCEPT ![p] = "closed"]
    /\ UNCHANGED <<variant, callVars, block, lookVars, loaded, derived, pargs, amounts, tx,
                   recent_blockhash, rpc_sent>>

\* confirm_transaction returned or raised
ConfirmResponse(p) ==
    /\ ppc[p] = "confirming"
    /\ \E resp \in {[confirmed |-> TRUE], RpcFailure, ConfirmTimeout} :
         /\ rpc_recv' = [rpc_recv EXCEPT ![p] = Append(@, resp)]
         /\ IF "rpc_error" \in DOMAIN resp
            THEN /\ ppc' = [ppc EXCEPT ![p] = "failed"]
                 /\ perror' = [perror EXCEPT ![p] =
                        [type |-> "RPCException", msg |-> "confirm"]]
                 /\ UNCHANGED <<signature>>
            ELSE IF resp = ConfirmTimeout
            THEN /\ ppc' = [ppc EXCEPT ![p] = "failed"]
                 /\ perror' = [perror EXCEPT ![p] = UnconfirmedTxError]
                 /\ UNCHANGED <<signature>>
            ELSE /\ ppc' = [ppc EXCEPT ![p] = "done"]
                 /\ signature' = [signature EXCEPT ![p] = rpc_sent[p][3].params]
                 /\ UNCHANGED <<perror>>
    /\ rpc_client' = [rpc_client EXCEPT ![p] = "closed"]
    /\ UNCHANGED <<variant, callVars, block, lookVars, loaded, derived, pargs, amounts, tx,
                   recent_blockhash, rpc_sent>>

----------------------------------------------------------------------------
(* TettoClient.list_agents / get_agent called on their own                  *)

NumLookups == 2
Lookups == 1..NumLookups

\* list_agents: GET {api_url}/api/agents
ListRequest(c) == HttpRequest("GET", c.api_url, <<"api", "agents">>, None)

IsList(r) == r.method = "GET" /\ Len(r.path) = 2

\* GET /api/agents
ListResponses ==
    {[ok |-> TRUE, agents |-> <<>>],
     [ok |-> TRUE, agents |-> <<[id |-> "agent-1", name |-> "TitleGenerator",
                                 price_usd |-> <<1, 0>>, fee_bps |-> 1000]>>]}
        \cup ErrorBodies \cup {TransportFailure}

\* list_agents after its GET returned
ListAgentsOutcome(request, body) ==
    IF IsTransportFailure(body) THEN Raise(TransportError(request))
    ELSE IF Get(body, "ok", FALSE) # TRUE
         THEN Raise(Exception(Get(body, "error", "Failed to list agents")))
    ELSE Return(body.agents)

\* list_agents up to its await
ListAgents(l) ==
    /\ variant = "C"
    /\ block = "inside"
    /\ lpc[l] = "idle"
    /\ largs' = [largs EXCEPT ![l] = [method |-> "list_agents"]]
    /\ lsent' = [lsent EXCEPT ![l] = Append(@, ListRequest(client))]
    /\ lpc' = [lpc EXCEPT ![l] = "listing"]
    /\ UNCHANGED <<variant, callVars, block, payVars, ldata, lresult, lerror, loaded, derived>>

\* GetAgent that answers from the descriptor an earlier get_agent returned
GetAgentCached(l, agent_id) ==
    /\ variant = "C"
    /\ block = "inside"
    /\ lpc[l] = "idle"
    /\ largs' = [largs EXCEPT ![l] = [method |-> "get_agent", agent_id |-> agent_id]]
    /\ IF \E k \in Lookups : lpc[k] = "done" /\ largs[k].method = "get_agent"
       THEN /\ lpc' = [lpc EXCEPT ![l] = "done"]
            /\ lresult' = [lresult EXCEPT ![l] =
                   lresult[CHOOSE k \in Lookups :
                               lpc[k] = "done" /\ largs[k].method = "get_agent"]]
            /\ lsent' = lsent
       ELSE /\ lpc' = [lpc EXCEPT ![l] = "getting"]
            /\ lsent' = [lsent EXCEPT ![l] =
                   Append(@, DescribeRequest(client, [agent_id |-> agent_id]))]
            /\ lresult' = lresult
    /\ UNCHANGED <<variant, callVars, block, payVars, ldata, lerror, loaded, derived>>

\* get_agent up to its await
GetAgent(l, agent_id) ==
    /\ variant = "C"
    /\ block = "inside"
    /\ lpc[l] = "idle"
    /\ largs' = [largs EXCEPT ![l] = [method |-> "get_agent", agent_id |-> agent_id]]
    /\ lsent' = [lsent EXCEPT ![l] =
           Append(@, DescribeRequest(client, [agent_id |-> agent_id]))]
    /\ lpc' = [lpc EXCEPT ![l] = "getting"]
    /\ UNCHANGED <<variant, callVars, block, payVars, ldata, lresult, lerror, loaded, derived>>

\* the response to list_agents' GET arrives
ListResponse(l) ==
    /\ lpc[l] = "listing"
    /\ \E body \in ListResponses :
         LET o == ListAgentsOutcome(lsent[l][Len(lsent[l])], body)
         IN  /\ ldata' = [ldata EXCEPT ![l] =
                    IF IsTransportFailure(body) THEN None ELSE body]
             /\ IF o.raise # None
                THEN /\ lpc' = [lpc EXCEPT ![l] = "failed"]
                     /\ lerror' = [lerror EXCEPT ![l] = o.raise]
                     /\ lresult' = lresult
                ELSE /\ lpc' = [lpc EXCEPT ![l] = "done"]
                     /\ lresult' = [lresult EXCEPT ![l] = o.value]
                     /\ lerror' = lerror
    /\ UNCHANGED <<variant, callVars, block, payVars, largs, lsent, loaded, derived>>

\* the response to get_agent's GET arrives
GetResponse(l) ==
    /\ lpc[l] = "getting"
    /\ \E body \in DescribeResponses(largs[l]) :
         LET o == GetAgentOutcome(lsent[l][Len(lsent[l])], body)
         IN  /\ ldata' = [ldata EXCEPT ![l] =
                    IF IsTransportFailure(body) THEN None ELSE body]
             /\ IF o.raise # None
                THEN /\ lpc' = [lpc EXCEPT ![l] = "failed"]
                     /\ lerror' = [lerror EXCEPT ![l] = o.raise]
                     /\ lresult' = lresult
                ELSE /\ lpc' = [lpc EXCEPT ![l] = "done"]
                     /\ lresult' = [lresult EXCEPT ![l] = o.value]
                     /\ lerror' = lerror
    /\ UNCHANGED <<variant, callVars, block, payVars, largs, lsent, loaded, derived>>

----------------------------------------------------------------------------
(* async with TettoClient(...): leaving the block                           *)

\* no call made inside the block is suspended: its body has finished or raised
BodyEnded ==
    /\ \A i \in Calls : pc[i] \in {"idle", "done", "failed"}
    /\ \A l \in Lookups : lpc[l] \in {"idle", "done", "failed"}

\* the body ended by an exception
BodyRaised ==
    \/ \E i \in Calls : pc[i] = "failed"
    \/ \E l \in Lookups : lpc[l] = "failed"

\* AExit that closes the HTTP client only when the body ended normally
AExitOnSuccess ==
    /\ client # None
    /\ block = "inside"
    /\ BodyEnded
    /\ block' = "exited"
    /\ client' = IF BodyRaised THEN client
                 ELSE [client EXCEPT !.http_client = "closed"]
    /\ UNCHANGED <<variant, intents_issued, pc, args, agent, build_result,
                   signed_transaction, data, result, error, sent,
                   payVars, lookVars, loaded, derived>>

\* __aexit__(exc_type, exc_val, exc_tb): await self.close()
AExit ==
    /\ client # None
    /\ block = "inside"
    /\ BodyEnded
    /\ block' = "exited"
    /\ client' = [client EXCEPT !.http_client = "closed"]
    /\ UNCHANGED <<variant, intents_issued, pc, args, agent, build_result,
                   signed_transaction, data, result, error, sent,
                   payVars, lookVars, loaded, derived>>

----------------------------------------------------------------------------
(* wallet: load_keypair_from_file, load_keypair_from_env, generate_keypair  *)

KeyLength == 64
SeedLength == 32
ByteRange == 256

MaxLoads == 2

\* the public key ed25519 derives from a 32-byte seed
PublicOf(seed) == [k \in 1..SeedLength |-> (7 * seed[k] + 13) % ByteRange]

\* the 64 bytes of the keypair grown from a seed
KeyBytes(seed) == seed \o PublicOf(seed)

SeedA == [k \in 1..SeedLength |-> k]
SeedB == [k \in 1..SeedLength |-> 2 * k]
Seeds == {SeedA, SeedB}

\* JSON documents a key source may hold
JsonInt(n) == [kind |-> "int", n |-> n]
JsonList(items) == [kind |-> "list", items |-> items]
JsonNull == [kind |-> "null"]
JsonString == [kind |-> "str"]

\* the text of a file or of an environment variable: a JSON document or not
JsonText(value) == [json |-> value]
Garbage == [garbage |-> TRUE]

KeyTexts ==
    {Garbage, JsonText(JsonNull), JsonText(JsonString),
     JsonText(JsonInt(0)), JsonText(JsonInt(KeyLength)),
     JsonText(JsonList(<<>>)),
     JsonText(JsonList(SubSeq(KeyBytes(SeedA), 1, KeyLength - 1))),
     JsonText(JsonList(KeyBytes(SeedA))),
     JsonText(JsonList(KeyBytes(SeedA) \o <<0>>)),
     JsonText(JsonList(SeedA \o SeedA)),
     JsonText(JsonList([k \in 1..KeyLength |-> 0])),
     JsonText(JsonList([k \in 1..KeyLength |-> ByteRange]))}

\* a file: missing, or holding a text
FileSources == {[exists |-> FALSE]} \cup {[exists |-> TRUE, text |-> t] : t \in KeyTexts}

\* os.getenv(env_var): None when unset, else the (possibly empty) string
EnvSources == {None, [empty |-> TRUE]} \cup KeyTexts

\* json.load / json.loads
JsonLoads(text) ==
    IF "garbage" \in DOMAIN text
    THEN Raise([type |-> "JSONDecodeError", msg |-> "Expecting value"])
    ELSE Return(text.json)

\* bytes(x) for a decoded JSON value x
Bytes(x) ==
    IF x.kind = "int" THEN Return([k \in 1..x.n |-> 0])
    ELSE IF x.kind = "list"
         THEN IF \A k \in 1..Len(x.items) : x.items[k] \in 0..(ByteRange - 1)
              THEN Return(x.items)
              ELSE Raise([type |-> "ValueError", msg |-> "bytes must be in range(0, 256)"])
    ELSE Raise([type |-> "TypeError", msg |-> "cannot convert to bytes"])

\* KeypairFromBytes that takes any 64 bytes
KeypairFromBytesUnverified(b) ==
    IF Len(b) # KeyLength
    THEN Raise([type |-> "ValueError", msg |-> "expected 64 bytes"])
    ELSE Return([secret |-> SubSeq(b, 1, SeedLength),
                 pubkey |-> SubSeq(b, SeedLength + 1, KeyLength)])

\* Keypair.from_bytes: 64 bytes, the second half the public key of the first
KeypairFromBytes(b) ==
    IF Len(b) # KeyLength
    THEN Raise([type |-> "ValueError", msg |-> "expected 64 bytes"])
    ELSE IF SubSeq(b, SeedLength + 1, KeyLength) # PublicOf(SubSeq(b, 1, SeedLength))
         THEN Raise([type |-> "ValueError", msg |-> "public key does not match"])
    ELSE Return([secret |-> SubSeq(b, 1, SeedLength),
                 pubkey |-> SubSeq(b, SeedLength + 1, KeyLength)])

\* Keypair.from_bytes(bytes(secret_key))
KeypairFromJson(secret_key) ==
    IF Bytes(secret_key).raise # None THEN Bytes(secret_key)
    ELSE KeypairFromBytes(Bytes(secret_key).value)

\* load_keypair_from_file(path)
LoadKeypairFromFileOutcome(file) ==
    IF ~file.exists
    THEN Raise([type |-> "FileNotFoundError", msg |-> "Keypair file not found"])
    ELSE IF JsonLoads(file.text).raise # None THEN JsonLoads(file.text)
    ELSE LET secret_key == JsonLoads(file.text).value
         IN  IF secret_key.kind # "list" \/ Len(secret_key.items) # KeyLength
             THEN Raise([type |-> "ValueError", msg |-> "Invalid keypair format"])
             ELSE KeypairFromJson(secret_key)

\* load_keypair_from_env(env_var)
LoadKeypairFromEnvOutcome(secret_key_str) ==
    IF secret_key_str = None \/ "empty" \in DOMAIN secret_key_str
    THEN Raise([type |-> "ValueError", msg |-> "not set"])
    ELSE IF JsonLoads(secret_key_str).raise # None THEN JsonLoads(secret_key_str)
    ELSE KeypairFromJson(JsonLoads(secret_key_str).value)

\* generate_keypair(): Keypair() draws a seed from the system's randomness
GenerateKeypairOutcome(seed) == KeypairFromBytes(KeyBytes(seed))

LoadKeypairFromFile(file) ==
    /\ variant = "W"
    /\ Len(loaded) < MaxLoads
    /\ loaded' = Append(loaded, [op |-> "load_keypair_from_file", source |-> file,
                                 outcome |-> LoadKeypairFromFileOutcome(file)])
    /\ UNCHANGED <<variant, callVars, block, payVars, lookVars, derived>>

LoadKeypairFromEnv(secret_key_str) ==
    /\ variant = "W"
    /\ Len(loaded) < MaxLoads
    /\ loaded' = Append(loaded, [op |-> "load_keypair_from_env",
                                 source |-> secret_key_str,
                                 outcome |-> LoadKeypairFromEnvOutcome(secret_key_str)])
    /\ UNCHANGED <<variant, callVars, block, payVars, lookVars, derived>>

GenerateKeypair(seed) ==
    /\ variant = "W"
    /\ Len(loaded) < MaxLoads
    /\ loaded' = Append(loaded, [op |-> "generate_keypair", source |-> None,
                                 outcome |-> GenerateKeypairOutcome(seed)])
    /\ UNCHANGED <<variant, callVars, block, payVars, lookVars, derived>>

----------------------------------------------------------------------------
(* get_associated_token_address called on its own                           *)

MaxDerivations == 2

\* the keys a caller passes: owners' wallets and the two USDC mints
WalletKeys == {[addr |-> "agent-wallet"],
               [addr |-> "CYSnefexbvrRU6VxzGfvZqKYM4UixupvDeZg3sUSWm84"]}
MintKeys == {[addr |-> "EPjFWdd5AufqSSqeM2qN1xzybapC8G4wEGGkZwyTDt1v"],
             [addr |-> "4zMMC9srt5Ri5X14GAgXhaHii3GnPAEERYPJgZJDncDU"]}

\* one call: it returns the address and touches nothing else
DeriveTokenAddress(wallet, mint) ==
    /\ variant = "T"
    /\ Len(derived) < MaxDerivations
    /\ derived' = Append(derived, [wallet |-> wallet, mint |-> mint,
                                   address |-> GetAssociatedTokenAddress(wallet, mint)])
    /\ UNCHANGED <<variant, callVars, block, payVars, lookVars, loaded>>

----------------------------------------------------------------------------
(* Specification                                                            *)

Init ==
    /\ variant \in Variants
    /\ IF variant = "B"
       THEN \E api_url \in ApiUrls, keypair \in KeypairArgs :
                client = TettoClientInit(api_url, "mainnet", keypair, None, None)
       ELSE IF variant = "C"
       THEN \E api_url \in ApiUrls, network \in Networks, keypair \in KeypairArgs :
                client = TettoClientInit(api_url, network, keypair, None, None)
       ELSE IF variant = "K"
       THEN \E api_url \in ApiUrls, network \in NetworkArgs, keypair \in KeypairArgs,
               rpc_url \in RpcUrlArgs, protocol_wallet \in ProtocolWalletArgs :
                client = TettoClientInit(api_url, network, keypair, rpc_url,
                                         protocol_wallet)
       ELSE client = None
    /\ block = "inside"
    /\ intents_issued = 0
    /\ pc = [i \in Calls |-> "idle"]
    /\ args = [i \in Calls |-> None]
    /\ agent = [i \in Calls |-> None]
    /\ build_result = [i \in Calls |-> None]
    /\ signed_transaction = [i \in Calls |-> None]
    /\ data = [i \in Calls |-> None]
    /\ result = [i \in Calls |-> None]
    /\ error = [i \in Calls |-> None]
    /\ sent = [i \in Calls |-> <<>>]
    /\ ppc = [p \in Pays |-> "idle"]
    /\ pargs = [p \in Pays |-> None]
    /\ amounts = [p \in Pays |-> None]
    /\ tx = [p \in Pays |-> None]
    /\ recent_blockhash = [p \in Pays |-> None]
    /\ rpc_client = [p \in Pays |-> "unopened"]
    /\ rpc_sent = [p \in Pays |-> <<>>]
    /\ rpc_recv = [p \in Pays |-> <<>>]
    /\ signature = [p \in Pays |-> None]
    /\ perror = [p \in Pays |-> None]
    /\ lpc = [l \in Lookups |-> "idle"]
    /\ largs = [l \in Lookups |-> None]
    /\ ldata = [l \in Lookups |-> None]
    /\ lresult = [l \in Lookups |-> None]
    /\ lerror = [l \in Lookups |-> None]
    /\ lsent = [l \in Lookups |-> <<>>]
    /\ loaded = <<>>
    /\ derived = <<>>

Next ==
    \/ \E i \in Calls, agent_id \in AgentIds, input_data \in InputData,
          preferred_token \in PreferredTokens :
            CallAgent(i, agent_id, input_data, preferred_token)
    \/ \E i \in Calls : DescribeResponse(i)
    \/ \E i \in Calls : BuildResponse(i)
    \/ \E i \in Calls : CallResponse(i)
    \/ \E p \in Pays, price \in Prices, token \in Tokens, fee_bps \in FeeBps :
            BuildAndSendPayment(p, ParseDecimal6(price[1], price[2]), token, fee_bps)
    \/ \E p \in Pays : BlockhashResponse(p)
    \/ \E p \in Pays : SendResponse(p)
    \/ \E p \in Pays : ConfirmResponse(p)
    \/ \E l \in Lookups : ListAgents(l)
    \/ \E l \in Lookups, agent_id \in AgentIds : GetAgent(l, agent_id)
    \/ \E l \in Lookups : ListResponse(l)
    \/ \E l \in Lookups : GetResponse(l)
    \/ AExit
    \/ \E file \in FileSources : LoadKeypairFromFile(file)
    \/ \E secret_key_str \in EnvSources : LoadKeypairFromEnv(secret_key_str)
    \/ \E seed \in Seeds : GenerateKeypair(seed)
    \/ \E wallet \in WalletKeys, mint \in MintKeys : DeriveTokenAddress(wallet, mint)

Spec == Init /\ [][Next]_vars

----------------------------------------------------------------------------
(* Properties                                                               *)

Range(seq) == {seq[k] : k \in 1..Len(seq)}

Count(seq, P(_)) == Cardinality({k \in 1..Len(seq) : P(seq[k])})

\* the build-transaction endpoint answered invocation i, and not with ok=true
BuildRejected(i) ==
    build_result[i] # None /\ Get(build_result[i], "ok", FALSE) # TRUE

\* C1: whenever the build-transaction endpoint answers ok=false, call_agent
\* fails: nothing is signed, nothing is returned and no request of that
\* invocation reaches POST /api/agents/call.
C1_FailFast ==
    \A i \in Calls :
        BuildRejected(i) =>
            /\ pc[i] = "failed"
            /\ error[i] # None
            /\ signed_transaction[i] = None
            /\ result[i] = None
            /\ Count(sent[i], IsSubmit) = 0

\* a build response with ok=false (carrying a transaction nonetheless) was
\* received and the invocation has failed
C1_Witness ==
    \E i \in Calls :
        /\ BuildRejected(i)
        /\ "transaction" \in DOMAIN build_result[i]
        /\ pc[i] = "failed"

\* the endpoint a request of call_agent goes to
Kind(r) ==
    IF IsDescribe(r) THEN "describe"
    ELSE IF IsBuild(r) THEN "build"
    ELSE IF IsSubmit(r) THEN "submit"
    ELSE "other"

PhaseOrder == <<"describe", "build", "submit">>

\* the exits of invocation i that raise
FailStep(i) ==
    /\ DescribeResponse(i) \/ BuildResponse(i) \/ CallResponse(i)
    /\ pc'[i] = "failed"

\* signing itself fails (the transaction does not deserialize)
SignFailStep(i) == BuildResponse(i) /\ error'[i] = DecodeError

PhaseEdges ==
    {<<"idle", "describing">>, <<"describing", "building">>,
     <<"building", "submitting">>, <<"submitting", "done">>,
     <<"idle", "failed">>, <<"describing", "failed">>,
     <<"building", "failed">>, <<"submitting", "failed">>}

C2_Phases(i) ==
    /\ Len(sent[i]) <= Len(PhaseOrder)
    /\ \A k \in 1..Len(sent[i]) : Kind(sent[i][k]) = PhaseOrder[k]
    /\ pc[i] = "idle" => Len(sent[i]) = 0
    /\ pc[i] = "describing" => Len(sent[i]) = 1
    /\ pc[i] = "building" => Len(sent[i]) = 2
    /\ pc[i] = "submitting" => Len(sent[i]) = 3
    /\ Len(sent[i]) >= 2 => agent[i] # None
    /\ signed_transaction[i] # None =>
          /\ build_result[i] # None
          /\ Get(build_result[i], "ok", FALSE) = TRUE
          /\ Len(sent[i]) = 3
    /\ Len(sent[i]) = 3 => signed_transaction[i] # None
    /\ pc[i] = "done" =>
          /\ Len(sent[i]) = 3
          /\ data[i] # None
          /\ Get(data[i], "ok", FALSE) = TRUE
          /\ result[i] # None
    /\ result[i] # None => pc[i] = "done"
    /\ pc[i] \in {"describing", "building", "submitting"} => ENABLED FailStep(i)
    /\ pc[i] = "building" => ENABLED SignFailStep(i)

\* C2: call_agent runs describe, build, sign and submit strictly in that
\* order, each phase starting only after the one before succeeded; every
\* phase in progress can end in FAILED; DONE (a returned result) occurs only
\* after the submit response carried ok=true.
C2_StateMachine ==
    /\ [](\A i \in Calls : C2_Phases(i))
    /\ [][\A i \in Calls : pc'[i] # pc[i] => <<pc[i], pc'[i]>> \in PhaseEdges]_vars

\* an invocation went through all phases and returned
C2_Witness ==
    \E i \in Calls :
        /\ pc[i] = "done"
        /\ Len(sent[i]) = 3
        /\ result[i].ok = TRUE

\* invocation i has posted to the relay
HasSubmitted(i) == Count(sent[i], IsSubmit) > 0

\* C3: the error a failed call_agent raises tells the phase it failed in: a
\* failure of the submit step (after signing) never surfaces the same error
\* as a failure of the describe or build step (before signing).
C3_ErrorCarriesPhase ==
    \A i, j \in Calls :
        (pc[i] = "failed" /\ pc[j] = "failed" /\ error[i] = error[j])
            => (HasSubmitted(i) <=> HasSubmitted(j))

IsSendTransaction(r) == r.method = "sendTransaction"

\* C4: no automatic retries: an invocation of call_agent requests each of the
\* describe, build-transaction and call endpoints at most once, and an
\* invocation of build_and_send_payment sends at most one transaction to the
\* ledger, whatever the outcome of each step.
C4_NoRetries ==
    /\ \A i \in Calls :
          /\ Count(sent[i], IsDescribe) <= 1
          /\ Count(sent[i], IsBuild) <= 1
          /\ Count(sent[i], IsSubmit) <= 1
    /\ \A p \in Pays : Count(rpc_sent[p], IsSendTransaction) <= 1

\* an invocation failed at the submit step and has not asked again
C4_Witness ==
    \E i \in Calls :
        /\ pc[i] = "failed"
        /\ Count(sent[i], IsSubmit) = 1
        /\ Len(sent[i]) = 3

SubmitsOf(i) == {r \in Range(sent[i]) : IsSubmit(r)}

SubmittedMessage(r) == TxFromBytes(B64Decode(r.json.signed_transaction)).message

\* C5: the payment intent id and the signed transaction an invocation posts to
\* the relay are the ones of its own build response, and no intent id or
\* signed transaction is posted by two invocations or twice.
C5_IntentCallScoped ==
    /\ \A i \in Calls : \A r \in SubmitsOf(i) :
          /\ build_result[i] # None
          /\ r.json.payment_intent_id = build_result[i].payment_intent_id
          /\ SubmittedMessage(r) =
                TxFromBytes(B64Decode(build_result[i].transaction)).message
          /\ r.json.signed_transaction = B64Encode(TxBytes(signed_transaction[i]))
          /\ Count(sent[i], IsSubmit) = 1
    /\ \A i, j \in Calls : \A r \in SubmitsOf(i), q \in SubmitsOf(j) :
          i # j =>
             /\ r.json.payment_intent_id # q.json.payment_intent_id
             /\ r.json.signed_transaction # q.json.signed_transaction

\* two invocations of the same client have both posted to the relay
C5_Witness ==
    \E i, j \in Calls : i # j /\ SubmitsOf(i) # {} /\ SubmitsOf(j) # {}

\* C6: call_agent sends requests to the platform API only (describe,
\* build-transaction, call), never to the RPC endpoint the client holds, and
\* the signed transaction travels in the call request only.
C6_OnlyPlatformApi ==
    \A i \in Calls : \A r \in Range(sent[i]) :
        /\ r.host = client.api_url
        /\ r.host # client.rpc_url
        /\ Kind(r) \in {"describe", "build", "submit"}
        /\ "signed_transaction" \in DOMAIN r.json => IsSubmit(r)

\* a signed transaction has been handed to the relay and answered
C6_Witness ==
    \E i \in Calls :
        /\ pc[i] = "done"
        /\ \E r \in Range(sent[i]) : "signed_transaction" \in DOMAIN r.json

\* C7: for every amount A and fee_bps in [0,10000], protocol_fee is
\* floor(A * fee_bps / 10000), agent_amount is A - protocol_fee, and the two
\* add up to A, in the USDC and in the SOL branch alike.
C7_FeeSplitIsFloor ==
    \A p \in Pays :
        (amounts[p] # None /\ pargs[p].fee_bps \in 0..10000) =>
            /\ amounts[p].protocol_fee =
                  FloorDiv(MulInt(amounts[p].amount, pargs[p].fee_bps), 10000)
            /\ ~amounts[p].agent_amount.neg
            /\ amounts[p].agent_amount.mag =
                  Minus(amounts[p].amount, amounts[p].protocol_fee)
            /\ Add(amounts[p].agent_amount.mag, amounts[p].protocol_fee) =
                  amounts[p].amount

\* C8: for the native token, price=$2.50 with feeBasisPoints=500 at an
\* exchange rate of $100 per unit gives totalBaseUnits=25,000,000,
\* protocolFee=1,250,000 and serviceAmount=23,750,000.
C8_NativeAmountAtSuppliedRate ==
    \A p \in Pays :
        (/\ amounts[p] # None
         /\ pargs[p].token = "SOL"
         /\ pargs[p].price_usd = ParseDecimal6(2, 500000)
         /\ pargs[p].fee_bps = 500) =>
            /\ amounts[p].amount = FromNat(25000000)
            /\ amounts[p].protocol_fee = FromNat(1250000)
            /\ amounts[p].agent_amount = [neg |-> FALSE, mag |-> FromNat(23750000)]

\* build_and_send_payment was given price=$1.00, fee_bps=1000, USDC
StableOneDollar(p) ==
    /\ amounts[p] # None
    /\ pargs[p].token = "USDC"
    /\ pargs[p].price_usd = ParseDecimal6(1, 0)
    /\ pargs[p].fee_bps = 1000

\* call_agent returned for an agent priced $1.00 with fee_bps=1000, paid in USDC
StableOneDollarCall(i) ==
    /\ pc[i] = "done"
    /\ args[i].preferred_token = "USDC"
    /\ agent[i].price_usd = <<1, 0>>
    /\ agent[i].fee_bps = 1000

C9_ClientBuilt ==
    \A p \in Pays :
        StableOneDollar(p) =>
            /\ amounts[p].protocol_fee = FromNat(100000)
            /\ amounts[p].agent_amount = [neg |-> FALSE, mag |-> FromNat(900000)]

\* C9 as claimed: for price=$1.00, fee_bps=1000 and USDC both variants yield
\* protocolFee=100000 and serviceAmount=900000: build_and_send_payment
\* computes them and call_agent's result reports them.
C9_BothVariantsYieldSplit ==
    /\ C9_ClientBuilt
    /\ \A i \in Calls :
          StableOneDollarCall(i) =>
             /\ result[i].protocol_fee = 100000
             /\ result[i].agent_received = 900000

\* C9 (amended): for price=$1.00, fee_bps=1000 and USDC,
\* build_and_send_payment computes protocolFee=100000 and
\* serviceAmount=900000; call_agent computes no split: its result reports the
\* protocol_fee and agent_received of the relay's response, 0 where the
\* response has none.
C9_SplitComputedOrRelayed ==
    /\ C9_ClientBuilt
    /\ \A i \in Calls :
          pc[i] = "done" =>
             /\ result[i].protocol_fee = Get(data[i], "protocol_fee", 0)
             /\ result[i].agent_received = Get(data[i], "agent_received", 0)

\* call_agent returned the split the relay reported for the $1.00 agent
C9_Witness ==
    \E i \in Calls :
        /\ StableOneDollarCall(i)
        /\ "protocol_fee" \in DOMAIN data[i]
        /\ result[i].protocol_fee = 100000
        /\ result[i].agent_received = 900000

SupportedTokens == {"USDC", "SOL"}

\* C10: a token outside {USDC, SOL} makes build_and_send_payment fail with
\* an unsupported-token error before a transaction is built, signed or sent,
\* and makes call_agent issue no build-transaction request with that token.
C10_UnsupportedTokenRejected ==
    /\ \A p \in Pays :
          (pargs[p] # None /\ pargs[p].token \notin SupportedTokens) =>
             /\ ppc[p] = "failed"
             /\ perror[p] # None
             /\ tx[p] = None
             /\ Count(rpc_sent[p], IsSendTransaction) = 0
    /\ \A i \in Calls : \A r \in Range(sent[i]) :
          IsBuild(r) => r.json.selected_token \in SupportedTokens

\* the transaction of invocation p was broadcast and the wait for its
\* confirmation ran out
ConfirmTimedOut(p) ==
    /\ Len(rpc_recv[p]) = 3
    /\ "value" \in DOMAIN rpc_recv[p][2]
    /\ rpc_recv[p][3] = ConfirmTimeout

\* C11: when the transaction was broadcast and the confirmation wait runs
\* out, build_and_send_payment does not fail: it reports an unknown outcome
\* and hands the broadcast signature to the caller.
C11_TimeoutIsUnknown ==
    \A p \in Pays :
        ConfirmTimedOut(p) =>
            /\ ppc[p] # "failed"
            /\ perror[p] = None
            /\ signature[p] = rpc_recv[p][2].value

\* C12: once the `async with TettoClient(...)` block has been left, with or
\* without an exception, the HTTP client of the constructor is closed; once
\* build_and_send_payment has returned or raised, its RPC client is closed.
C12_TransportReleased ==
    /\ block = "exited" => client.http_client = "closed"
    /\ \A p \in Pays :
          /\ ppc[p] \in {"done", "failed"} => rpc_client[p] = "closed"
          /\ ppc[p] \in {"blockhash", "sending", "confirming"} => rpc_client[p] = "open"

\* the block was left after call_agent raised at the submit step
C12_Witness ==
    /\ block = "exited"
    /\ \E i \in Calls : pc[i] = "failed" /\ Len(sent[i]) = 3
    /\ client.http_client = "closed"

MainnetTriple ==
    [rpc_url |-> Url("https://api.mainnet-beta.solana.com"),
     protocol_wallet |-> [addr |-> "CYSnefexbvrRU6VxzGfvZqKYM4UixupvDeZg3sUSWm84"],
     usdc_mint |-> [addr |-> "EPjFWdd5AufqSSqeM2qN1xzybapC8G4wEGGkZwyTDt1v"]]

DevnetTriple ==
    [rpc_url |-> Url("https://api.devnet.solana.com"),
     protocol_wallet |-> [addr |-> "BubFsAG8cSEH7NkLpZijctRpsZkCiaWqCdRfh8kUpXEt"],
     usdc_mint |-> [addr |-> "4zMMC9srt5Ri5X14GAgXhaHii3GnPAEERYPJgZJDncDU"]]

Triple(c) ==
    [rpc_url |-> c.rpc_url, protocol_wallet |-> c.protocol_wallet,
     usdc_mint |-> c.usdc_mint]

\* C13: the (rpc_url, protocol_wallet, usdc_mint) a client holds is the
\* mainnet triple when its network is mainnet and the devnet triple when it
\* is devnet, and never anything else, whatever the constructor was given.
C13_TripleOfOneNetwork ==
    client # None =>
        /\ Triple(client) \in {MainnetTriple, DevnetTriple}
        /\ client.network = "mainnet" => Triple(client) = MainnetTriple
        /\ client.network = "devnet" => Triple(client) = DevnetTriple

\* the signed transaction a call request carries
SubmittedTransaction(r) == TxFromBytes(B64Decode(r.json.signed_transaction))

\* C14: no request of call_agent carries the secret key: the build request
\* holds the payer's public address, the token and the input; the call
\* request holds the intent id and the transaction, whose only key-derived
\* part is one signature made for the payer's public address.
C14_SecretNeverSent ==
    (variant = "B" /\ client.keypair # None) =>
        \A i \in Calls : \A r \in Range(sent[i]) :
            /\ \A k \in 1..Len(r.path) : r.path[k] # client.keypair.secret
            /\ IsDescribe(r) => r.json = None
            /\ IsBuild(r) =>
                  /\ DOMAIN r.json = {"payer_wallet", "selected_token", "input"}
                  /\ r.json.payer_wallet = client.keypair.pubkey
                  /\ r.json.payer_wallet # client.keypair.secret
                  /\ r.json.selected_token # client.keypair.secret
                  /\ r.json.input # client.keypair.secret
            /\ IsSubmit(r) =>
                  /\ DOMAIN r.json = {"payment_intent_id", "signed_transaction"}
                  /\ SubmittedTransaction(r).message =
                        TxFromBytes(B64Decode(build_result[i].transaction)).message
                  /\ Len(SubmittedTransaction(r).signatures) = 1
                  /\ DOMAIN SubmittedTransaction(r).signatures[1] = {"signer", "message"}
                  /\ SubmittedTransaction(r).signatures[1].signer = client.keypair.pubkey
                  /\ SubmittedTransaction(r).signatures[1].message =
                        SubmittedTransaction(r).message

\* a client holding a keypair has sent a build and a call request
C14_Witness ==
    /\ variant = "B"
    /\ client.keypair # None
    /\ \E i \in Calls : Count(sent[i], IsBuild) = 1 /\ Count(sent[i], IsSubmit) = 1

\* C15: on a client without a keypair call_agent raises at once and sends
\* no request at all.
C15_NoKeypairNoRequest ==
    (variant = "B" /\ client.keypair = None) =>
        \A i \in Calls :
            /\ sent[i] = <<>>
            /\ pc[i] \in {"idle", "failed"}
            /\ pc[i] = "failed" => error[i] = Exception("Keypair required for payments.")
            /\ agent[i] = None /\ result[i] = None

\* call_agent has been called on a client without a keypair and has raised
C15_Witness ==
    /\ variant = "B"
    /\ client.keypair = None
    /\ \E i \in Calls : pc[i] = "failed" /\ args[i] # None

\* 64 byte values, the last 32 the public key of the first 32
ValidKeyBytes(items) ==
    /\ Len(items) = KeyLength
    /\ \A k \in 1..KeyLength : items[k] \in 0..(ByteRange - 1)
    /\ SubSeq(items, SeedLength + 1, KeyLength) = PublicOf(SubSeq(items, 1, SeedLength))

\* the text is a JSON array that holds a keypair
HoldsKey(text) ==
    /\ "json" \in DOMAIN text
    /\ text.json.kind = "list"
    /\ ValidKeyBytes(text.json.items)

\* the keypair made of the bytes in the text
KeyOf(text) ==
    [secret |-> SubSeq(text.json.items, 1, SeedLength),
     pubkey |-> SubSeq(text.json.items, SeedLength + 1, KeyLength)]

\* C16: load_keypair_from_file and load_keypair_from_env raise unless the
\* source exists and holds a JSON array of 64 bytes that form a keypair, and
\* then return exactly that keypair; only generate_keypair makes a new key.
C16_KeyLoadFailsClosed ==
    \A k \in 1..Len(loaded) :
        /\ loaded[k].op = "load_keypair_from_file" =>
              IF loaded[k].source.exists /\ HoldsKey(loaded[k].source.text)
              THEN loaded[k].outcome = Return(KeyOf(loaded[k].source.text))
              ELSE loaded[k].outcome.raise # None
        /\ loaded[k].op = "load_keypair_from_env" =>
              IF HoldsKey(loaded[k].source)
              THEN loaded[k].outcome = Return(KeyOf(loaded[k].source))
              ELSE loaded[k].outcome.raise # None
        /\ loaded[k].op = "generate_keypair" => loaded[k].outcome.raise = None

\* both loaders were given 64 bytes that are no keypair and raised
C16_Witness ==
    /\ \E k \in 1..Len(loaded) :
          /\ loaded[k].op = "load_keypair_from_env"
          /\ loaded[k].source = JsonText(JsonInt(KeyLength))
          /\ loaded[k].outcome.raise # None
    /\ \E k \in 1..Len(loaded) :
          /\ loaded[k].op = "load_keypair_from_file"
          /\ loaded[k].source.exists
          /\ loaded[k].source.text = JsonText(JsonList(SeedA \o SeedA))
          /\ loaded[k].outcome.raise # None

IsConfirmTransaction(r) == r.method = "confirmTransaction"

\* C17: build_and_send_payment returns a signature only when the
\* transaction was sent, the node answered with that signature and the wait
\* for confirmation ended well; when sending or confirming failed it
\* returns nothing.
C17_SignatureAfterConfirmation ==
    \A p \in Pays :
        /\ signature[p] # None =>
              /\ ppc[p] = "done"
              /\ Len(rpc_sent[p]) = 3 /\ Len(rpc_recv[p]) = 3
              /\ IsSendTransaction(rpc_sent[p][2])
              /\ rpc_recv[p][2] = [value |-> signature[p]]
              /\ IsConfirmTransaction(rpc_sent[p][3])
              /\ rpc_sent[p][3].params = signature[p]
              /\ rpc_recv[p][3] = [confirmed |-> TRUE]
        /\ ppc[p] = "done" => signature[p] # None
        /\ (\E k \in 1..Len(rpc_recv[p]) :
                rpc_recv[p][k] \in {RpcFailure, ConfirmTimeout}) =>
              /\ signature[p] = None
              /\ ppc[p] = "failed"

\* a signature was returned after the confirmation
C17_Witness ==
    \E p \in Pays :
        /\ ppc[p] = "done"
        /\ signature[p] = tx[p].signatures[1]
        /\ rpc_recv[p][3] = [confirmed |-> TRUE]

\* C18: every call_agent invocation sends its own describe request, right
\* before its build request; every list_agents and get_agent call sends one
\* request and returns what the answer to that request holds.
C18_DescriptorFetchedPerCall ==
    /\ \A i \in Calls :
          /\ agent[i] # None =>
                /\ Count(sent[i], IsDescribe) = 1
                /\ IsDescribe(sent[i][1])
                /\ sent[i][1].path[3] = args[i].agent_id
          /\ \A k \in 1..Len(sent[i]) :
                IsBuild(sent[i][k]) => k > 1 /\ IsDescribe(sent[i][k - 1])
    /\ \A l \in Lookups :
          /\ lpc[l] # "idle" =>
                /\ Len(lsent[l]) = 1
                /\ largs[l].method = "list_agents" => IsList(lsent[l][1])
                /\ largs[l].method = "get_agent" =>
                      /\ IsDescribe(lsent[l][1])
                      /\ lsent[l][1].path[3] = largs[l].agent_id
          /\ lpc[l] = "done" =>
                /\ ldata[l] # None
                /\ largs[l].method = "list_agents" => lresult[l] = ldata[l].agents
                /\ largs[l].method = "get_agent" => lresult[l] = ldata[l].agent

\* get_agent returned twice, each time after a request of its own
C18_Witness ==
    \E l, k \in Lookups :
        /\ l # k
        /\ lpc[l] = "done" /\ largs[l].method = "get_agent" /\ Len(lsent[l]) = 1
        /\ lpc[k] = "done" /\ largs[k].method = "get_agent" /\ Len(lsent[k]) = 1

IsGetLatestBlockhash(r) == r.method = "getLatestBlockhash"

C20_TokenAccountEndpoints ==
    \A p \in Pays :
        (tx[p] # None /\ pargs[p].token = "USDC") =>
            /\ Len(tx[p].message.instructions) = 2
            /\ \A k \in 1..2 :
                  /\ tx[p].message.instructions[k].kind = "TransferChecked"
                  /\ tx[p].message.instructions[k].source =
                        GetAssociatedTokenAddress(pargs[p].payer_keypair.pubkey,
                                                  pargs[p].usdc_mint)
                  /\ tx[p].message.instructions[k].authority =
                        pargs[p].payer_keypair.pubkey
                  /\ tx[p].message.instructions[k].dest \notin
                        {pargs[p].agent_wallet, pargs[p].protocol_wallet}
                  /\ tx[p].message.instructions[k].mint = pargs[p].usdc_mint
            /\ tx[p].message.instructions[1].dest =
                  GetAssociatedTokenAddress(pargs[p].agent_wallet, pargs[p].usdc_mint)
            /\ tx[p].message.instructions[2].dest =
                  GetAssociatedTokenAddress(pargs[p].protocol_wallet, pargs[p].usdc_mint)

\* a USDC payment was built and sent
C20_Witness ==
    \E p \in Pays :
        /\ tx[p] # None
        /\ pargs[p].token = "USDC"
        /\ Count(rpc_sent[p], IsSendTransaction) = 1

UnsignedOf(i) == TxFromBytes(B64Decode(build_result[i].transaction))

\* C22: in call_agent the client only adds its signature: the transaction it
\* signs and the transaction every submit request carries have the very
\* message of the unsigned transaction the build step returned, and carry
\* exactly one signature, made with the client's own keypair over that message.
C22_OnlyAddsSignature ==
    \A i \in Calls :
        /\ signed_transaction[i] # None =>
               /\ signed_transaction[i].message = UnsignedOf(i).message
               /\ Len(signed_transaction[i].signatures) = 1
               /\ signed_transaction[i].signatures[1] =
                      SignMessage(client.keypair, UnsignedOf(i).message)
        /\ \A r \in SubmitsOf(i) :
               /\ signed_transaction[i] # None
               /\ SubmittedTransaction(r) = signed_transaction[i]

\* an invocation that signed the built transaction and submitted it
C22_Witness ==
    \E i \in Calls :
        /\ SubmitsOf(i) # {}
        /\ signed_transaction[i] # None
        /\ signed_transaction[i].signatures[1].signer = "pk1"
        /\ UnsignedOf(i).signatures = <<>>

\* the account a transfer of invocation p to `owner` is paid into
Recipient(p, owner) ==
    IF pargs[p].token = "USDC" THEN GetAssociatedTokenAddress(owner, pargs[p].usdc_mint)
    ELSE owner

\* the transfers a request to the RPC node carries
TransfersOf(r) == IF IsSendTransaction(r) THEN r.params.message.instructions ELSE <<>>

\* C23: build_and_send_payment puts both transfers in one transaction, the
\* agent's first and the protocol's second, and sends that transaction once:
\* every request that carries a transfer carries exactly these two, with the
\* computed amounts, and at most one such request is ever issued, so no
\* reachable state has one transfer sent without the other.
C23_BothTransfersTogether ==
    \A p \in Pays :
        /\ \A r \in Range(rpc_sent[p]) :
               TransfersOf(r) # <<>> =>
                   /\ Len(TransfersOf(r)) = 2
                   /\ TransfersOf(r)[1].dest = Recipient(p, pargs[p].agent_wallet)
                   /\ TransfersOf(r)[1].amount = amounts[p].agent_amount.mag
                   /\ TransfersOf(r)[2].dest = Recipient(p, pargs[p].protocol_wallet)
                   /\ TransfersOf(r)[2].amount = amounts[p].protocol_fee
                   /\ r.params = tx[p]
        /\ Cardinality({k \in 1..Len(rpc_sent[p]) : TransfersOf(rpc_sent[p][k]) # <<>>}) <= 1
        /\ \A r \in Range(rpc_sent[p]) : IsSendTransaction(r) => TransfersOf(r) # <<>>

\* a native-token payment whose one transaction went out and was confirmed
C23_Witness ==
    \E p \in Pays :
        /\ pargs[p] # None
        /\ pargs[p].token = "SOL"
        /\ \E r \in Range(rpc_sent[p]) : Len(TransfersOf(r)) = 2
        /\ signature[p] # None

\* one of the two amounts invocation p computed is below zero
NegativeAmount(p) == amounts[p].agent_amount.neg \/ amounts[p].protocol_fee_neg

\* C24: build_and_send_payment never sends a transaction with a negative
\* transfer amount: for every price >= 0 and every integer fee_bps, above
\* 10000 and below 0 included, a transaction that is sent carries the two
\* computed amounts and both are >= 0, and an invocation that computed a
\* negative amount fails while building the transfers, with no transaction
\* built and send_transaction never called.
C24_NoNegativeTransferSent ==
    \A p \in Pays :
        /\ \A r \in Range(rpc_sent[p]) :
               IsSendTransaction(r) =>
                   /\ ~NegativeAmount(p)
                   /\ {r.params.message.instructions[k].amount : k \in 1..2} =
                          {amounts[p].agent_amount.mag, amounts[p].protocol_fee}
        /\ (amounts[p] # None /\ NegativeAmount(p)) =>
               /\ tx[p] = None /\ signature[p] = None
               /\ ppc[p] \in {"blockhash", "failed"}
               /\ ppc[p] = "failed" =>
                      /\ perror[p] # None
                      /\ perror[p].type \in {"struct.error", "OverflowError", "RPCException"}

\* fee_bps above 10000 made agent_amount negative and the invocation failed
\* on packing it, with a blockhash in hand and nothing sent
C24_Witness ==
    \E p \in Pays :
        /\ amounts[p] # None
        /\ pargs[p].fee_bps > 10000
        /\ amounts[p].agent_amount.neg
        /\ ppc[p] = "failed"
        /\ perror[p].type \in {"struct.error", "OverflowError"}
        /\ \E resp \in Range(rpc_recv[p]) : "blockhash" \in DOMAIN resp
        /\ \A r \in Range(rpc_sent[p]) : ~IsSendTransaction(r)


=============================================================================
